---------------------------- MODULE Spec2Model ----------------------------
(***************************************************************************)
(* Model of src/src/msg_split.py: split_message, the generator that cuts   *)
(* an HTML message into fragments, and the helpers nested inside it.       *)
(*                                                                         *)
(* Strings are TLA+ strings; Len, \o and SubSeq give Python's len, + and   *)
(* slicing.  A document tree is a sequence of Node records, as delivered   *)
(* by BeautifulSoup(source, 'html.parser').                                *)
(***************************************************************************)
EXTENDS Integers, Sequences, FiniteSets, TLC

(***************************************************************************)
(* Python string primitives used by the code                               *)
(***************************************************************************)

\* s[i] (1-based), as a one-character string
Ch(s, i) == SubSeq(s, i, i)

\* str.isspace() for one character
IsSpace(c) == c \in {" ", "\n", "\t"}

\* s[i-1:] (1-based i)
From(s, i) == SubSeq(s, i, Len(s))

\* index of the first occurrence of character c at or after i, Len(s)+1 if none
Find(s, c, i) ==
    IF \E j \in i..Len(s) : Ch(s, j) = c
    THEN CHOOSE j \in i..Len(s) : Ch(s, j) = c /\ \A k \in i..(j - 1) : Ch(s, k) # c
    ELSE Len(s) + 1

\* index of the first whitespace character at or after i, Len(s)+1 if none
FindSpace(s, i) ==
    IF \E j \in i..Len(s) : IsSpace(Ch(s, j))
    THEN CHOOSE j \in i..Len(s) : IsSpace(Ch(s, j)) /\ \A k \in i..(j - 1) : ~IsSpace(Ch(s, k))
    ELSE Len(s) + 1

\* index of the first non-whitespace character at or after i, Len(s)+1 if none
FindNonSpace(s, i) ==
    IF \E j \in i..Len(s) : ~IsSpace(Ch(s, j))
    THEN CHOOSE j \in i..Len(s) : ~IsSpace(Ch(s, j)) /\ \A k \in i..(j - 1) : IsSpace(Ch(s, k))
    ELSE Len(s) + 1

\* str.lstrip()
LStrip(s) == From(s, FindNonSpace(s, 1))

\* str.rstrip()
RStrip(s) ==
    IF \E j \in 1..Len(s) : ~IsSpace(Ch(s, j))
    THEN SubSeq(s, 1, CHOOSE j \in 1..Len(s) :
                        ~IsSpace(Ch(s, j)) /\ \A k \in (j + 1)..Len(s) : IsSpace(Ch(s, k)))
    ELSE ""

\* str.strip()
Strip(s) == RStrip(LStrip(s))

\* str.split(): the whitespace-separated words of s, in order
RECURSIVE Split(_)
Split(s) ==
    LET b == FindNonSpace(s, 1)
        e == FindSpace(s, b)
    IN  IF b > Len(s) THEN <<>>
        ELSE <<SubSeq(s, b, e - 1)>> \o Split(From(s, e))

\* ''.join(seq)
RECURSIVE Join(_)
Join(seq) == IF seq = <<>> THEN "" ELSE Head(seq) \o Join(Tail(seq))

(***************************************************************************)
(* The document tree (bs4 Tag / NavigableString)                           *)
(***************************************************************************)

\* a NavigableString
TextNode(t) == [kind |-> "text", name |-> "", attrs |-> <<>>, children |-> <<>>, text |-> t]

\* a Tag with its attrs (ordered key/value pairs) and children
TagNode(n, a, c) == [kind |-> "tag", name |-> n, attrs |-> a, children |-> c, text |-> ""]

\* isinstance(element, Tag)
IsTag(element) == element.kind = "tag"

\* ' k="v"' for every attribute, in insertion order
RECURSIVE AttrStr(_)
AttrStr(attrs) ==
    IF attrs = <<>> THEN ""
    ELSE " " \o Head(attrs).k \o "=\"" \o Head(attrs).v \o "\"" \o AttrStr(Tail(attrs))

\* str(element): the serialisation of a node with all its descendants
RECURSIVE Str(_)
Str(element) ==
    IF IsTag(element)
    THEN "<" \o element.name \o AttrStr(element.attrs) \o ">"
         \o Join([i \in 1..Len(element.children) |-> Str(element.children[i])])
         \o "</" \o element.name \o ">"
    ELSE element.text

\* the attributes written inside an opening tag, after the tag name
RECURSIVE ParseAttrs(_)
ParseAttrs(s) ==
    LET b  == FindNonSpace(s, 1)
        eq == Find(s, "=", b)
        q  == Find(s, "\"", eq + 2)
    IN  IF b > Len(s) \/ eq > Len(s) THEN <<>>
        ELSE <<[k |-> SubSeq(s, b, eq - 1), v |-> SubSeq(s, eq + 2, q - 1)]>>
             \o ParseAttrs(From(s, q + 1))

\* the nodes starting at s[i], up to the closing tag of the innermost open
\* element (open is the stack of open tag names) or the end of the input;
\* unterminated elements are closed at the end of the input, a closing tag
\* that matches no open element is ignored
RECURSIVE ParseNodes(_, _, _)
ParseNodes(s, i, open) ==
    IF i > Len(s) THEN [nodes |-> <<>>, next |-> i]
    ELSE IF Ch(s, i) # "<"
    THEN LET lt   == Find(s, "<", i)
             rest == ParseNodes(s, lt, open)
         IN  [nodes |-> <<TextNode(SubSeq(s, i, lt - 1))>> \o rest.nodes, next |-> rest.next]
    ELSE LET gt    == Find(s, ">", i)
             inner == SubSeq(s, i + 1, gt - 1)
         IN  IF Ch(inner, 1) = "/"
             THEN LET n == From(inner, 2)
                  IN  IF open # <<>> /\ open[Len(open)] = n
                      THEN [nodes |-> <<>>, next |-> gt + 1]
                      ELSE IF \E j \in 1..Len(open) : open[j] = n
                      THEN [nodes |-> <<>>, next |-> i]
                      ELSE ParseNodes(s, gt + 1, open)
             ELSE LET sp   == FindSpace(inner, 1)
                      n    == SubSeq(inner, 1, sp - 1)
                      kids == ParseNodes(s, gt + 1, Append(open, n))
                      rest == ParseNodes(s, kids.next, open)
                  IN  [nodes |-> <<TagNode(n, ParseAttrs(From(inner, sp)), kids.nodes)>>
                                 \o rest.nodes,
                       next |-> rest.next]

\* BeautifulSoup(source, 'html.parser'): the top-level nodes of the document
BeautifulSoup(source) == ParseNodes(source, 1, <<>>).nodes

(***************************************************************************)
(* State of one call of split_message                                      *)
(***************************************************************************)

VARIABLES
    source,            \* the source argument
    max_len,           \* the max_len argument
    pc,                \* where the generator body stands
    soup,              \* soup.children, the parsed top-level nodes
    idx,               \* position of the loop of line 209 in soup.children
    root_tags,         \* root_tags
    pending,           \* fragments of the loop of line 216 not yet consumed
    current_fragment,  \* current_fragment
    yielded,           \* the fragments yielded to the caller so far
    exc,               \* the exception the call raised, NoExc if none
    call,              \* 1 for a call on an input message, 2 for a call on a fragment
    origin             \* the fragment a call of kind 2 was given

vars == <<source, max_len, pc, soup, idx, root_tags, pending, current_fragment,
          yielded, exc, call, origin>>

(***************************************************************************)
(* Exceptions                                                              *)
(***************************************************************************)

NoExc == "none"

\* raise HTMLFragmentationError("Unsplittable element exceeds max_len")
UnsplittableExc == "HTMLFragmentationError: Unsplittable element exceeds max_len"

\* raise ValueError("max_len must be positive")
ValueErrorExc == "ValueError: max_len must be positive"

\* class MaxLengthError(HTMLFragmentationError); no statement raises it
MaxLengthError == "MaxLengthError"

Return(v) == [exc |-> NoExc, value |-> v]

Raise(e) == [exc |-> e, value |-> <<>>]

(***************************************************************************)
(* The helpers nested in split_message; max_len is their closure variable  *)
(***************************************************************************)

\* validate_input for a str source and an int max_len; split_message does
\* not call it
validate_input(src, len) ==
    IF len < 1 THEN Raise(ValueErrorExc) ELSE Return(<<>>)

\* the tag names is_unsplittable tests
UnsplittableTags == {"a", "code", "b", "i", "strong", "em"}

RECURSIVE create_wrapper_start(_)
create_wrapper_start(tags) ==
    IF tags = <<>> THEN ""
    ELSE "<" \o Head(tags).name \o AttrStr(Head(tags).attrs) \o ">"
         \o create_wrapper_start(Tail(tags))

\* create_wrapper_end without reversed(): the closing tags outermost first
RECURSIVE create_wrapper_end_unreversed(_)
create_wrapper_end_unreversed(tags) ==
    IF tags = <<>> THEN ""
    ELSE "</" \o Head(tags).name \o ">" \o create_wrapper_end_unreversed(Tail(tags))

RECURSIVE create_wrapper_end(_)
create_wrapper_end(tags) ==
    IF tags = <<>> THEN ""
    ELSE create_wrapper_end(Tail(tags)) \o "</" \o Head(tags).name \o ">"

is_unsplittable(element) ==
    IF IsTag(element) /\ element.name \in UnsplittableTags
    THEN IF Len(Str(element)) > max_len THEN Raise(UnsplittableExc) ELSE Return(TRUE)
    ELSE Return(FALSE)

\* current_tags = parent_tags + [element]
CurrentTags(element, parent_tags) == parent_tags \o <<element>>

\* available_len
AvailableLen(current_tags) ==
    max_len - Len(create_wrapper_start(current_tags)) - Len(create_wrapper_end(current_tags))

\* the word loop of a text child of a split element; gives the fragments and
\* the line left in current
RECURSIVE WrapChildText(_, _, _, _)
WrapChildText(words, current, fragments, current_tags) ==
    IF words = <<>> THEN [fragments |-> fragments, current |-> current]
    ELSE LET word == Head(words)
         IN  IF Len(current \o word \o " ") <= AvailableLen(current_tags)
             THEN WrapChildText(Tail(words), current \o word \o " ", fragments, current_tags)
             ELSE WrapChildText(Tail(words), word \o " ",
                      IF current # ""
                      THEN Append(fragments, create_wrapper_start(current_tags)
                                             \o RStrip(current)
                                             \o create_wrapper_end(current_tags))
                      ELSE fragments,
                      current_tags)

\* the loop over the fragments of a Tag child: a fragment that fits once
\* wrapped is appended wrapped, for one that does not every part of the
\* child is appended wrapped
RECURSIVE WrapChildFragments(_, _, _, _)
WrapChildFragments(todo, child_parts, fragments, current_tags) ==
    LET wrapper_start == create_wrapper_start(current_tags)
        wrapper_end   == create_wrapper_end(current_tags)
    IN  IF todo = <<>> THEN fragments
        ELSE IF Len(wrapper_start \o Head(todo) \o wrapper_end) <= max_len
        THEN WrapChildFragments(Tail(todo), child_parts,
                 Append(fragments, wrapper_start \o Head(todo) \o wrapper_end), current_tags)
        ELSE WrapChildFragments(Tail(todo), child_parts,
                 fragments \o [j \in 1..Len(child_parts) |->
                                  wrapper_start \o child_parts[j] \o wrapper_end],
                 current_tags)

\* the word loop of a top-level text node and its final flush
RECURSIVE WrapText(_, _, _)
WrapText(words, current, fragments) ==
    IF words = <<>>
    THEN IF current # "" THEN Append(fragments, RStrip(current)) ELSE fragments
    ELSE LET word == Head(words)
         IN  IF Len(current \o word \o " ") <= max_len
             THEN WrapText(Tail(words), current \o word \o " ", fragments)
             ELSE WrapText(Tail(words), word \o " ",
                      IF current # "" THEN Append(fragments, RStrip(current)) ELSE fragments)

RECURSIVE process_element(_, _)
RECURSIVE ProcessChildren(_, _, _, _)

\* the loop over element.children of a split element and the flush after it
ProcessChildren(children, current, fragments, current_tags) ==
    LET wrapper_start == create_wrapper_start(current_tags)
        wrapper_end   == create_wrapper_end(current_tags)
    IN  IF children = <<>>
        THEN Return(IF current # ""
                    THEN Append(fragments, wrapper_start \o RStrip(current) \o wrapper_end)
                    ELSE fragments)
        ELSE LET child     == Head(children)
                 child_str == Strip(Str(child))
                 stored    == IF current # ""
                              THEN Append(fragments, wrapper_start \o current \o wrapper_end)
                              ELSE fragments
             IN  IF child_str = ""
                 THEN ProcessChildren(Tail(children), current, fragments, current_tags)
                 ELSE IF Len(current \o child_str) <= AvailableLen(current_tags)
                 THEN ProcessChildren(Tail(children), current \o child_str, fragments,
                                      current_tags)
                 ELSE IF IsTag(child)
                 THEN LET r == process_element(child, current_tags)
                      IN  IF r.exc # NoExc THEN r
                          ELSE ProcessChildren(Tail(children), "",
                                   WrapChildFragments(r.value, r.value, stored, current_tags),
                                   current_tags)
                 ELSE ProcessChildren(Tail(children), "",
                          WrapChildText(Split(child_str), "", stored, current_tags).fragments,
                          current_tags)

process_element(element, parent_tags) ==
    LET u       == is_unsplittable(element)
        content == Str(element)
        text    == Strip(Str(element))
    IN  IF u.exc # NoExc THEN Raise(u.exc)
        ELSE IF u.value
        THEN IF Len(content) > max_len THEN Raise(UnsplittableExc) ELSE Return(<<content>>)
        ELSE IF IsTag(element)
        THEN IF Len(content) <= max_len THEN Return(<<content>>)
             ELSE ProcessChildren(element.children, "", <<>>,
                                  CurrentTags(element, parent_tags))
        ELSE IF text = "" THEN Return(<<>>)
        ELSE IF Len(text) <= max_len THEN Return(<<text>>)
        ELSE Return(WrapText(Split(text), "", <<>>))

\* root_tags after "if isinstance(element, Tag): root_tags = [element]"
RootTags(element, tags) == IF IsTag(element) THEN <<element>> ELSE tags

\* a yield without the test of current_fragment
Yield_unguarded(out, fragment) == Append(out, fragment)

\* "if current_fragment: yield current_fragment"
Yield(out, fragment) == IF fragment # "" THEN Append(out, fragment) ELSE out

(***************************************************************************)
(* Inputs                                                                  *)
(***************************************************************************)

\* the most top-level pieces an input message is made of
MaxRoots == 2

\* the pieces input messages are made of
Pieces ==
    { " \n",
      "aaa bb",
      "<a>x</a>",
      "<p>aa bb</p>",
      "<mention>x</mention>",
      "<p>aa<a>x</a>bb cc dd</p>",
      "<div><p id=\"1\">aa bb cc</p></div>",
      "<p>aa" }

RECURSIVE Messages(_)
Messages(n) ==
    IF n = 0 THEN {""}
    ELSE Messages(n - 1) \cup {m \o p : m \in Messages(n - 1), p \in Pieces}

\* the values of max_len tried
MaxLens == {0, 4, 7, 11, 18, 22}

(***************************************************************************)
(* The generator body of split_message, one action per step                *)
(***************************************************************************)

Init ==
    /\ source \in Messages(MaxRoots)
    /\ max_len \in MaxLens
    /\ pc = "start"
    /\ soup = <<>>
    /\ idx = 0
    /\ root_tags = <<>>
    /\ pending = <<>>
    /\ current_fragment = ""
    /\ yielded = <<>>
    /\ exc = NoExc
    /\ call = 1
    /\ origin = ""

\* the first next(): the document is parsed and the loop state set up
Start ==
    /\ pc = "start"
    /\ soup' = BeautifulSoup(source)
    /\ idx' = 1
    /\ current_fragment' = ""
    /\ root_tags' = <<>>
    /\ pc' = "loop"
    /\ UNCHANGED <<source, max_len, pending, yielded, exc, call, origin>>

\* "if not str(element).strip(): continue"
SkipBlank ==
    /\ pc = "loop"
    /\ idx <= Len(soup)
    /\ Strip(Str(soup[idx])) = ""
    /\ idx' = idx + 1
    /\ UNCHANGED <<source, max_len, pc, soup, root_tags, pending, current_fragment,
                   yielded, exc, call, origin>>

\* a top-level node is given to process_element, which returns its list of
\* fragments or raises
ProcessRoot ==
    /\ pc = "loop"
    /\ idx <= Len(soup)
    /\ Strip(Str(soup[idx])) # ""
    /\ LET element == soup[idx]
           tags    == RootTags(element, root_tags)
           r       == process_element(element, tags)
       IN  /\ root_tags' = tags
           /\ IF r.exc # NoExc
              THEN /\ exc' = r.exc
                   /\ pc' = "raised"
                   /\ pending' = <<>>
              ELSE /\ exc' = exc
                   /\ pc' = "merge"
                   /\ pending' = r.value
    /\ UNCHANGED <<source, max_len, soup, idx, current_fragment, yielded, call, origin>>

\* one iteration of "for fragment in process_element(...)"
Merge ==
    /\ pc = "merge"
    /\ pending # <<>>
    /\ LET fragment == Head(pending)
       IN  IF Len(current_fragment \o fragment) <= max_len
           THEN /\ current_fragment' = current_fragment \o fragment
                /\ yielded' = yielded
           ELSE /\ yielded' = Yield(yielded, current_fragment)
                /\ current_fragment' = fragment
    /\ pending' = Tail(pending)
    /\ UNCHANGED <<source, max_len, pc, soup, idx, root_tags, exc, call, origin>>

\* the fragments of a top-level node are used up: on to the next node
NextRoot ==
    /\ pc = "merge"
    /\ pending = <<>>
    /\ idx' = idx + 1
    /\ pc' = "loop"
    /\ UNCHANGED <<source, max_len, soup, root_tags, pending, current_fragment,
                   yielded, exc, call, origin>>

\* after the loop: the last fragment is yielded and the generator returns
Finish ==
    /\ pc = "loop"
    /\ idx > Len(soup)
    /\ yielded' = Yield(yielded, current_fragment)
    /\ pc' = "done"
    /\ UNCHANGED <<source, max_len, soup, idx, root_tags, pending, current_fragment,
                   exc, call, origin>>

\* the caller gives one of the fragments it received to a fresh call of
\* split_message, with the same max_len
Refragment ==
    /\ pc = "done"
    /\ call = 1
    /\ \E k \in 1..Len(yielded) :
          /\ source' = yielded[k]
          /\ origin' = yielded[k]
    /\ call' = 2
    /\ pc' = "start"
    /\ soup' = <<>>
    /\ idx' = 0
    /\ root_tags' = <<>>
    /\ pending' = <<>>
    /\ current_fragment' = ""
    /\ yielded' = <<>>
    /\ exc' = NoExc
    /\ UNCHANGED max_len

Next ==
    \/ Start
    \/ SkipBlank
    \/ ProcessRoot
    \/ Merge
    \/ NextRoot
    \/ Finish
    \/ Refragment

Spec == Init /\ [][Next]_vars

(***************************************************************************)
(* Vocabulary of the properties                                            *)
(***************************************************************************)

\* the atomic whitelist of the specification
AtomicTags == {"a", "code", "b", "i", "strong", "em", "mention"}

\* TRUE iff the tags of s from position i on are properly nested inside the
\* open tags and leave none of them open
RECURSIVE Nested(_, _, _)
Nested(s, i, open) ==
    IF i > Len(s) THEN open = <<>>
    ELSE IF Ch(s, i) # "<" THEN Nested(s, Find(s, "<", i), open)
    ELSE LET gt    == Find(s, ">", i)
             inner == SubSeq(s, i + 1, gt - 1)
         IN  IF gt > Len(s) THEN FALSE
             ELSE IF Ch(inner, 1) = "/"
             THEN /\ open # <<>>
                  /\ open[Len(open)] = From(inner, 2)
                  /\ Nested(s, gt + 1, SubSeq(open, 1, Len(open) - 1))
             ELSE Nested(s, gt + 1,
                         Append(open, SubSeq(inner, 1, FindSpace(inner, 1) - 1)))

\* the fragment is tag-balanced
Balanced(fragment) == Nested(fragment, 1, <<>>)

\* the deepest nesting of tags in s from position i on, depth being the
\* number of tags open at i
RECURSIVE Nesting(_, _, _)
Nesting(s, i, depth) ==
    IF i > Len(s) THEN depth
    ELSE IF Ch(s, i) # "<" THEN Nesting(s, Find(s, "<", i), depth)
    ELSE LET gt   == Find(s, ">", i)
             d    == IF Ch(s, i + 1) = "/" THEN depth - 1 ELSE depth + 1
             rest == Nesting(s, gt + 1, d)
         IN  IF rest > d THEN (IF rest > depth THEN rest ELSE depth)
             ELSE (IF d > depth THEN d ELSE depth)

\* s with every tag replaced by a space
RECURSIVE StripTags(_)
StripTags(s) ==
    LET lt == Find(s, "<", 1)
    IN  IF lt > Len(s) THEN s
        ELSE SubSeq(s, 1, lt - 1) \o " " \o StripTags(From(s, Find(s, ">", lt) + 1))

\* the words of the text content of s, in document order
TextWords(s) == Split(StripTags(s))

\* the words of the text content of the fragments, in order
RECURSIVE FragmentWords(_)
FragmentWords(fragments) ==
    IF fragments = <<>> THEN <<>>
    ELSE TextWords(Head(fragments)) \o FragmentWords(Tail(fragments))

\* some element of the nodes or below them is atomic and longer than max_len
RECURSIVE HasOversizedAtomic(_)
HasOversizedAtomic(nodes) ==
    \E i \in 1..Len(nodes) :
        /\ IsTag(nodes[i])
        /\ \/ nodes[i].name \in AtomicTags /\ Len(Str(nodes[i])) > max_len
           \/ HasOversizedAtomic(nodes[i].children)

\* the element is not atomic and too long to be kept whole: it must be split
MustSplit(element) ==
    /\ IsTag(element)
    /\ element.name \notin AtomicTags
    /\ Len(Str(element)) > max_len

\* the top-level node i has been given to process_element
Processed(i) == i < idx \/ (i = idx /\ pc \in {"merge", "raised"})

\* the call is over: the generator returned or raised
Over == pc \in {"done", "raised"}

(***************************************************************************)
(* Properties                                                              *)
(***************************************************************************)

\* C1: for max_len >= 1, every fragment yielded by a call that does not
\* raise has length <= max_len.
C1_FragmentsWithinMaxLen ==
    (max_len >= 1 /\ pc # "raised") =>
        \A k \in 1..Len(yielded) : Len(yielded[k]) <= max_len

\* C2: when the call completes without error, the words of the text content
\* of the yielded fragments, in order, are the words of the text content of
\* the input: none dropped, duplicated or reordered.
C2_WordsPreserved ==
    (max_len >= 1 /\ pc = "done") => FragmentWords(yielded) = TextWords(source)

\* C3: every yielded fragment is tag-balanced, its tags properly nested.
C3_FragmentsBalanced ==
    \A k \in 1..Len(yielded) : Balanced(yielded[k])

\* C3 happens: a call on a message some element of which had to be split
\* has returned, having yielded fragments with tags.
C3_Witness ==
    /\ pc = "done"
    /\ \E i \in 1..Len(soup) : MustSplit(soup[i])
    /\ Len(yielded) >= 2
    /\ \A k \in 1..Len(yielded) : Find(yielded[k], "<", 1) <= Len(yielded[k])

\* C4: when the input has an atomic element longer than max_len, wherever it
\* stands, a call consumed to its end raises the unsplittable-element error.
C4_OversizedAtomicRaises ==
    (max_len >= 1 /\ Over /\ HasOversizedAtomic(soup)) => (pc = "raised" /\ exc = UnsplittableExc)

\* C5: when the call raises, no fragment has been yielded before.
C5_NoPartialSequence ==
    (max_len >= 1 /\ pc = "raised") => yielded = <<>>

\* C6: a call with max_len < 1 is rejected with the configuration error
\* before the tree is traversed and before any fragment is yielded.
C6_NonPositiveMaxLenRejected ==
    (max_len < 1 /\ pc # "start") =>
        /\ pc = "raised"
        /\ exc = validate_input(source, max_len).exc
        /\ idx <= 1
        /\ yielded = <<>>

\* C7: when a top-level element must be split and its own opening and closing
\* tag leave no room (max_len - overhead <= 0), the call fails with
\* MaxLengthError as soon as the element is processed: no fragment of it is
\* produced.
C7_OverheadRaises ==
    \A i \in 1..Len(soup) :
        (/\ max_len >= 1
         /\ Processed(i)
         /\ MustSplit(soup[i])
         /\ AvailableLen(<<soup[i]>>) <= 0) =>
            (pc = "raised" /\ exc = MaxLengthError)

\* C8: a call on a fragment yielded by a call with the same max_len yields
\* exactly that fragment.
C8_Idempotent ==
    (max_len >= 1 /\ call = 2 /\ Over) => (pc = "done" /\ yielded = <<origin>>)

\* C9: an empty or whitespace-only input yields no fragment, and no yielded
\* fragment is empty or whitespace-only.
C9_NoBlankFragments ==
    /\ Strip(source) = "" => yielded = <<>>
    /\ \A k \in 1..Len(yielded) : Strip(yielded[k]) # ""

\* C9 happens: a call on a non-empty whitespace-only input has returned.
C9_Witness ==
    /\ pc = "done"
    /\ source # ""
    /\ Strip(source) = ""
    /\ yielded = <<>>

\* C10: the context stack a split top-level element is rendered with is its
\* chain of ancestors, the element itself once, and no fragment made from it
\* nests tags deeper than the element does.
C10_WrappedOnce ==
    (max_len >= 1 /\ pc = "merge" /\ MustSplit(soup[idx])) =>
        /\ CurrentTags(soup[idx], root_tags) = <<soup[idx]>>
        /\ \A k \in 1..Len(pending) :
              Nesting(pending[k], 1, 0) <= Nesting(Str(soup[idx]), 1, 0)

=============================================================================
